---- MODULE Spec2Model ----
(***************************************************************************)
(* Model of python-compiler/compiler_server.py: the multi-language         *)
(* compile-and-run server.  Requests are handled by concurrent worker      *)
(* threads that share the LANGUAGE_CONFIGS registry.                       *)
(*                                                                         *)
(* Text is a sequence of tokens (words, "\n" and " " being whitespace), so *)
(* that concatenation, strip() and "\n".join() are computed.  A path is a  *)
(* sequence of components.                                                 *)
(***************************************************************************)
EXTENDS Integers, Sequences, FiniteSets, TLC

VARIABLES
    os_name,            \* os.name of the server process: "nt" or "posix"
    LANGUAGE_CONFIGS,   \* the shared registry: language -> LanguageConfig
    pc,                 \* per thread: position in compile_endpoint / compile_and_run_code
    request,            \* per thread: the CompileRequest being served
    probes,             \* per thread: kotlinc_available, kotlin_available
    temp_dir,           \* per thread: the TemporaryDirectory of the request (<<>> when none)
    file_path,          \* per thread: os.path.join(temp_dir, filename)
    compile_output,     \* per thread: stdout + stderr of the build
    outcome,            \* per thread: (stdout, stderr, returncode) of the last execute_command
    result,             \* per thread: the CompileResponse (and HTTP status) produced
    steps,              \* per thread: what the request has done so far, in order
    procs,              \* per thread: the processes started for the request still alive
    elapsed,            \* per thread: seconds the current subprocess.run has waited
    workspaces,         \* the temporary directories that exist on disk
    files,              \* per thread: the files written for the request that exist on disk
    probe_call,         \* check_command_exists when it is the call made last: its argument,
                        \* what the candidates did, the candidates tried and the answer
    listing             \* get_supported_languages when it is the call made last: what the
                        \* candidates did, the registry iterated and the response

vars == <<os_name, LANGUAGE_CONFIGS, pc, request, probes,
          temp_dir, file_path, compile_output, outcome, result, steps, procs,
          elapsed, workspaces, files, probe_call, listing>>

\* ------------------------------------------------------------------ bounds

\* seconds by which the clock of a waiting subprocess.run advances in one step
TickUnit == 30
\* the largest exit code a child process returns
MaxExit == 1

Threads == {"t1", "t2"}

\* ------------------------------------------------------- program constants

\* execute_command(compile_cmd, temp_dir, timeout=60)
BuildTimeout == 60
\* execute_command's default timeout
RunTimeout == 30

\* ------------------------------------------------------------------- text

Whitespace == {" ", "\n"}

RECURSIVE lstrip(_)
lstrip(s) ==
    IF s # <<>> /\ Head(s) \in Whitespace THEN lstrip(Tail(s)) ELSE s

RECURSIVE rstrip(_)
rstrip(s) ==
    IF s # <<>> /\ s[Len(s)] \in Whitespace
    THEN rstrip(SubSeq(s, 1, Len(s) - 1))
    ELSE s

\* str.strip()
strip(s) == rstrip(lstrip(s))

\* "\n".join(parts)
RECURSIVE join(_)
join(parts) ==
    IF parts = <<>> THEN <<>>
    ELSE IF Len(parts) = 1 THEN parts[1]
    ELSE parts[1] \o <<"\n">> \o join(Tail(parts))

Contains(s, tok) == \E i \in 1..Len(s) : s[i] = tok

\* ------------------------------------------------------------------ paths

\* os.path.join(a, b): an absolute b discards a
os_path_join(a, b) ==
    IF b # <<>> /\ b[1] = "/" THEN b ELSE a \o b

\* the path with its ".." components resolved
RECURSIVE normpath(_)
normpath(p) ==
    IF p = <<>> THEN <<>>
    ELSE LET init == normpath(SubSeq(p, 1, Len(p) - 1))
             last == p[Len(p)]
         IN IF last = ".."
            THEN (IF Len(init) > 1 THEN SubSeq(init, 1, Len(init) - 1) ELSE init)
            ELSE Append(init, last)

IsUnder(p, dir) ==
    LET n == normpath(p)
    IN Len(n) > Len(dir) /\ SubSeq(n, 1, Len(dir)) = dir

\* tempfile.TemporaryDirectory() of the request served by thread t
TempDirOf(t) == <<"/", "tmp", t>>

\* --------------------------------------------------------------- registry

\* the keys of LANGUAGE_CONFIGS, in insertion order
LanguageOrder ==
    <<"python", "java", "kotlin", "c", "cpp", "javascript", "go">>

Registered == {LanguageOrder[i] : i \in 1..Len(LanguageOrder)}

LanguageConfig(extension, compile_cmd, run_cmd, default_filename) ==
    [extension |-> extension, compile_cmd |-> compile_cmd,
     run_cmd |-> run_cmd, default_filename |-> default_filename]

\* compile_cmd and run_cmd hold the name of a command generator; "None" is None
InitialConfigs ==
    [l \in Registered |->
        CASE l = "python" -> LanguageConfig(".py", "None", "python_run", <<"main.py">>)
          [] l = "java" -> LanguageConfig(".java", "java_compile", "java_run", <<"Main.java">>)
          [] l = "kotlin" -> LanguageConfig(".kt", "kotlin_compile_cmd", "kotlin_run_cmd", <<"Main.kt">>)
          [] l = "c" -> LanguageConfig(".c", "c_compile", "c_run", <<"main.c">>)
          [] l = "cpp" -> LanguageConfig(".cpp", "cpp_compile", "c_run", <<"main.cpp">>)
          [] l = "javascript" -> LanguageConfig(".js", "None", "javascript_run", <<"main.js">>)
          [] OTHER -> LanguageConfig(".go", "None", "go_run", <<"main.go">>)]

\* os.path.join(temp_dir, 'program.jar')
JarPath(dir) == os_path_join(dir, <<"program.jar">>)

kotlin_compile_cmd(fp, dir) ==
    LET kotlinc_cmd == IF os_name = "nt" THEN "kotlinc.bat" ELSE "kotlinc"
    IN << <<kotlinc_cmd>>, fp, <<"-include-runtime">>, <<"-d">>, JarPath(dir) >>

kotlin_run_cmd(fp, dir) ==
    << <<"java">>, <<"-jar">>, JarPath(dir) >>

kotlin_interpret_cmd(fp, dir) ==
    LET kotlin_cmd == IF os_name = "nt" THEN "kotlin.bat" ELSE "kotlin"
    IN << <<kotlin_cmd>>, <<"-script">>, fp >>

\* calling the command generator named gen; None is not callable
Callable(gen) == gen # "None"

CallGenerator(gen, fp, dir) ==
    CASE gen = "kotlin_compile_cmd" -> kotlin_compile_cmd(fp, dir)
      [] gen = "kotlin_run_cmd" -> kotlin_run_cmd(fp, dir)
      [] gen = "kotlin_interpret_cmd" -> kotlin_interpret_cmd(fp, dir)
      [] gen = "python_run" -> << <<"python">>, fp >>
      [] gen = "java_compile" -> << <<"javac">>, fp >>
      [] gen = "java_run" -> << <<"java">>, <<"-cp">>, dir, <<fp[Len(fp)]>> >>
      [] gen = "c_compile" -> << <<"gcc">>, fp, <<"-o">>, os_path_join(dir, <<"program.exe">>) >>
      [] gen = "cpp_compile" -> << <<"g++">>, fp, <<"-o">>, os_path_join(dir, <<"program.exe">>) >>
      [] gen = "c_run" -> << os_path_join(dir, <<"program.exe">>) >>
      [] gen = "javascript_run" -> << <<"node">>, fp >>
      [] OTHER -> << <<"go">>, <<"run">>, fp >>

\* ------------------------------------------------------------------ probe

\* what subprocess.run([command] + flag, timeout=15) can do for one candidate
\* (banner: 'kotlin' occurs in the lower-cased stdout or stderr)
ProbeOutcomes ==
    { [kind |-> "completed", returncode |-> 0, banner |-> FALSE],
      [kind |-> "completed", returncode |-> 1, banner |-> TRUE],
      [kind |-> "completed", returncode |-> 1, banner |-> FALSE],
      [kind |-> "notfound", returncode |-> 1, banner |-> FALSE],
      [kind |-> "timeout", returncode |-> 1, banner |-> FALSE],
      [kind |-> "error", returncode |-> 1, banner |-> FALSE] }

commands_to_try(cmd) ==
    IF os_name = "nt" /\ cmd = "kotlinc" THEN <<"kotlinc.bat", "kotlinc">> ELSE <<cmd>>

\* (mutant) only exit code zero counts, for every candidate
CandidateSucceedsExitOnly(command, o) ==
    o.kind = "completed" /\ o.returncode = 0

\* lines 97-103: the success criterion of one candidate
CandidateSucceeds(command, o) ==
    /\ o.kind = "completed"
    /\ IF command \in {"kotlinc", "kotlinc.bat"}
       THEN o.returncode = 0 \/ o.banner
       ELSE o.returncode = 0

\* the for loop of lines 61-113 over the candidates left, env giving each
\* candidate's behaviour; returns the answer and the candidates tried
RECURSIVE TryCommands(_, _, _)
TryCommands(cands, env, tried) ==
    IF cands = <<>> THEN [found |-> FALSE, tried |-> tried]
    ELSE IF CandidateSucceeds(Head(cands), env[Head(cands)])
         THEN [found |-> TRUE, tried |-> Append(tried, Head(cands))]
         ELSE TryCommands(Tail(cands), env, Append(tried, Head(cands)))

check_command_exists(cmd, env) == TryCommands(commands_to_try(cmd), env, <<>>).found

\* the executables the two probes of a Kotlin request can invoke
Candidates ==
    LET tried == commands_to_try("kotlinc") \o commands_to_try("kotlin")
    IN {tried[i] : i \in 1..Len(tried)}

\* the tools check_command_exists is called on
ProbedTools == {"kotlinc", "kotlin", "python"}

\* the executables a probe of cmd can invoke
CandidatesOf(cmd) ==
    {commands_to_try(cmd)[i] : i \in 1..Len(commands_to_try(cmd))}

NoProbeCall == [cmd |-> "", env |-> <<>>, tried |-> <<>>, found |-> FALSE]

\* ---------------------------------------------------------------- listing

\* LANGUAGE_CONFIGS.keys(): the keys in insertion order
keys(configs) == SelectSeq(LanguageOrder, LAMBDA l : l \in DOMAIN configs)

\* (mutant) Kotlin is listed only when both probes succeed
get_supported_languagesBothProbes(configs, env) ==
    SelectSeq(keys(configs),
              LAMBDA lang :
                  IF lang = "kotlin"
                  THEN check_command_exists("kotlinc", env)
                       /\ check_command_exists("kotlin", env)
                  ELSE TRUE)

\* lines 405-411: the languages list of get_supported_languages
get_supported_languages(configs, env) ==
    SelectSeq(keys(configs),
              LAMBDA lang :
                  IF lang = "kotlin"
                  THEN check_command_exists("kotlinc", env)
                       \/ check_command_exists("kotlin", env)
                  ELSE TRUE)

NoListing == [called |-> FALSE, env |-> <<>>, registry |-> <<>>,
              languages |-> <<>>, count |-> 0]

\* --------------------------------------------------------- process runner

ExitCodes == 0..MaxExit

\* what the child of subprocess.run can print
Stdouts == {<<>>, <<"out", "\n">>}
Stderrs == {<<>>, <<"err", "\n">>}

\* how one subprocess.run(cmd, timeout=...) ends
Completions ==
    {ev \in [kind : {"completed"}, stdout : Stdouts, stderr : Stderrs,
             returncode : ExitCodes] :
        \/ ev.returncode = 0 /\ (ev.stdout = <<>> \/ ev.stderr = <<>>)
        \/ ev.returncode # 0 /\ (ev.stdout = <<>> <=> ev.stderr = <<>>)}

\* Popen raises: FileNotFoundError (not under a shell, which is what gets
\* launched when shell=True) or another exception
LaunchFailures ==
    {ev \in [kind : {"notfound", "error"}, stdout : {<<>>}, stderr : {<<>>},
             returncode : {1}] :
        ev.kind = "notfound" => os_name # "nt"}

\* Popen started the process
Launched ==
    [kind |-> "launched", stdout |-> <<>>, stderr |-> <<>>, returncode |-> 0]

Launches == {Launched} \cup LaunchFailures

TimeoutExpired ==
    [kind |-> "timeout", stdout |-> <<>>, stderr |-> <<>>, returncode |-> 1]

\* (mutant) a command that is not found is reported with empty stderr
execute_commandQuietNotFound(cmd, ev) ==
    CASE ev.kind = "completed" ->
            [stdout |-> ev.stdout, stderr |-> ev.stderr, returncode |-> ev.returncode]
      [] ev.kind = "timeout" ->
            [stdout |-> <<>>, stderr |-> <<"Execution timed out">>, returncode |-> 1]
      [] ev.kind = "notfound" ->
            [stdout |-> <<>>, stderr |-> <<>>, returncode |-> 1]
      [] OTHER ->
            [stdout |-> <<>>, stderr |-> <<"Execution error:">>, returncode |-> 1]

\* (mutant) a timeout is reported with empty stderr
execute_commandSilentTimeout(cmd, ev) ==
    CASE ev.kind = "completed" ->
            [stdout |-> ev.stdout, stderr |-> ev.stderr, returncode |-> ev.returncode]
      [] ev.kind = "timeout" ->
            [stdout |-> <<>>, stderr |-> <<>>, returncode |-> 1]
      [] ev.kind = "notfound" ->
            [stdout |-> <<>>, stderr |-> <<"Command not found:", cmd[1][1]>>,
             returncode |-> 1]
      [] OTHER ->
            [stdout |-> <<>>, stderr |-> <<"Execution error:">>, returncode |-> 1]

\* lines 191-212: the (stdout, stderr, returncode) execute_command returns
execute_command(cmd, ev) ==
    CASE ev.kind = "completed" ->
            [stdout |-> ev.stdout, stderr |-> ev.stderr, returncode |-> ev.returncode]
      [] ev.kind = "timeout" ->
            [stdout |-> <<>>, stderr |-> <<"Execution timed out">>, returncode |-> 1]
      [] ev.kind = "notfound" ->
            [stdout |-> <<>>, stderr |-> <<"Command not found:", cmd[1][1]>>,
             returncode |-> 1]
      [] OTHER ->
            [stdout |-> <<>>, stderr |-> <<"Execution error:">>, returncode |-> 1]

\* line 203, shell=(os.name == 'nt'): the processes alive once Popen has
\* launched the command: the child, which on Windows is the shell, and then
\* the command running below it
Popen(phase) ==
    IF os_name = "nt"
    THEN {<<phase, "child">>, <<phase, "descendant">>}
    ELSE {<<phase, "child">>}

\* subprocess.run on TimeoutExpired: process.kill() kills the child it started
KillOnTimeout(alive, phase) == alive \ {<<phase, "child">>}

\* subprocess.run after the kill: on POSIX process.wait() collects the child;
\* on Windows process.communicate() reads the pipes to end-of-file, which
\* comes when no process below the child holds them any more
CollectedAfterKill(alive, phase) ==
    os_name = "nt" => <<phase, "descendant">> \notin alive

\* subprocess.run on completion: communicate() returned at end-of-file of the
\* pipes, which the child and the processes it spawned share
ReapOnExit(alive, phase) == {p \in alive : p[1] # phase}

\* ------------------------------------------------------------ orchestrator

CompileResponse(success, output, errors) ==
    [success |-> success, output |-> output, errors |-> errors]

NoOutcome == [stdout |-> <<>>, stderr |-> <<>>, returncode |-> 0]
NoResult == [success |-> FALSE, output |-> <<>>, errors |-> <<>>, status |-> 0]
NoRequest == [language |-> "", fileName |-> <<>>]
NoProbes == [kotlinc |-> FALSE, kotlin |-> FALSE]

\* one entry of steps: what was done, on which argument vector or path (for
\* the substitution: on which build and run generators), how it ended and
\* with which exit code
Event(op, argv, how, rc) == [op |-> op, argv |-> argv, how |-> how, rc |-> rc]

\* (mutant) the error does not name the language
UnsupportedResponseUnnamed(language) ==
    CompileResponse(FALSE, <<>>, << <<"Unsupported language:">> >>)

\* lines 219-223
UnsupportedResponse(language) ==
    CompileResponse(FALSE, <<>>, << <<"Unsupported language:", language>> >>)

\* (mutant) without the fail-fast branch
ProbeBranchNoFailFast(kotlinc_available, kotlin_available) ==
    IF ~kotlinc_available /\ kotlin_available THEN "swap" ELSE "proceed"

\* lines 234-251: what follows the two probes: the request goes on with the
\* profile as it is, swaps in the script runner, or fails fast
ProbeBranch(kotlinc_available, kotlin_available) ==
    IF ~kotlinc_available
    THEN (IF kotlin_available THEN "swap" ELSE "missing")
    ELSE "proceed"

\* lines 246-248: whether the install path exists, whether kotlinc.bat exists
\* in it, whether PATH names it
InstallFacts ==
    {<<FALSE, FALSE, FALSE>>, <<TRUE, FALSE, TRUE>>, <<TRUE, TRUE, TRUE>>}

\* lines 241-251
MissingToolchainResponse(facts) ==
    CompileResponse(FALSE, <<>>,
        << <<"Kotlin compiler not found. Troubleshooting info:">>,
           <<"Kotlin bin path exists:", facts[1]>>,
           <<"kotlinc.bat exists:", facts[2]>>,
           <<"Current PATH contains kotlinc:", facts[3]>>,
           <<"Try running kotlinc.bat -version manually in terminal to test">> >>)

\* (mutant) the write failure is swallowed
WriteFailedResponseSilent ==
    CompileResponse(FALSE, <<>>, <<>>)

\* lines 268-272
WriteFailedResponse ==
    CompileResponse(FALSE, <<>>, << <<"Failed to write code to file:">> >>)

\* (mutant) only a build killed by a signal counts as failed
BuildFailedOnlyOnSignal(o) == o.returncode < 0

\* line 285: if returncode != 0
BuildFailed(o) == o.returncode # 0

\* (mutant) the build's stderr is dropped
CompileOutputStdoutOnly(o) == o.stdout

\* line 283
CompileOutput(o) == o.stdout \o o.stderr

\* lines 286-290
CompileFailedResponse(o) ==
    CompileResponse(FALSE, CompileOutput(o),
        << <<"Compilation failed with exit code:", o.returncode>> >>)

\* lines 298-311
OutputParts(compiled, o) ==
    (IF compiled # <<>> THEN << <<"Compilation successful">> >> ELSE <<>>)
    \o (IF o.stdout # <<>>
        THEN << <<"--- Execution Output ---">>, strip(o.stdout) >> ELSE <<>>)
    \o (IF o.stderr # <<>>
        THEN << <<"--- Execution Error ---">>, strip(o.stderr) >> ELSE <<>>)
    \o (IF o.stdout = <<>> /\ o.stderr = <<>>
        THEN << <<"--- No Output ---">> >> ELSE <<>>)

\* (mutant) every non-zero exit code is recorded as an error
RunErrorsOnNonZero(o) ==
    IF o.returncode # 0
    THEN << <<"Execution failed with exit code:", o.returncode>> >>
    ELSE <<>>

\* lines 313-314
RunErrors(o) ==
    IF o.returncode # 0 /\ o.stderr # <<>>
    THEN << <<"Execution failed with exit code:", o.returncode>> >>
    ELSE <<>>

\* (mutant) success is judged by the run having printed on stdout
RunSuccessOnOutput(o) == o.stdout # <<>>

\* (mutant) success whenever no error was recorded
RunSuccessWhenNoErrors(o) == RunErrors(o) = <<>>

\* line 319
RunSuccess(o) == o.returncode = 0 /\ RunErrors(o) = <<>>

\* lines 316-322
RunResponse(compiled, o) ==
    LET output_parts == OutputParts(compiled, o)
        final_output == IF output_parts # <<>> THEN join(output_parts) ELSE compiled
    IN CompileResponse(RunSuccess(o), final_output, RunErrors(o))

\* (mutant) the catch-all answers without an error entry
ServerErrorResponseNoErrors ==
    CompileResponse(FALSE, <<>>, <<>>)

\* lines 388-400: the catch-all of compile_endpoint
ServerErrorResponse ==
    CompileResponse(FALSE, <<>>, << <<"Server error:">> >>)

\* (mutant) leaving the block removes nothing, as after tempfile.mkdtemp()
TempDirCleanupLeak(dirs, t) == dirs

\* __exit__ of the `with tempfile.TemporaryDirectory()` block, line 260
TempDirCleanup(dirs, t) == dirs \ {TempDirOf(t)}

\* the files left once the directory dir has been removed
FilesAfterCleanup(fs, dir) == {f \in fs : ~IsUnder(f, dir)}

\* ---------------------------------------------------------------- inputs

\* language identifiers of the requests: one without build step, the hybrid
\* one (the build and run of a compiled language, or the script run), an
\* unknown one
RequestLanguages == {"python", "kotlin", "ruby"}

\* fileName of the requests: absent, with a parent component, absolute
FileNames == {<<>>, <<"..", "x.py">>, <<"/", "srv", "x.py">>}

\* the requests served: every language with the default file name, and the
\* language without build step with every file name
Requests ==
    {r \in [language : RequestLanguages, fileName : FileNames] :
        r.fileName = <<>> \/ r.language = "python"}

\* ------------------------------------------------------------------ state

\* `config = LANGUAGE_CONFIGS[language]` (line 225) is a reference to the
\* shared entry: every later read of config.* reads the registry
Config(t) == LANGUAGE_CONFIGS[request[t].language]

Init ==
    /\ os_name \in {"nt", "posix"}
    /\ LANGUAGE_CONFIGS = InitialConfigs
    /\ pc = [t \in Threads |-> "idle"]
    /\ request = [t \in Threads |-> NoRequest]
    /\ probes = [t \in Threads |-> NoProbes]
    /\ temp_dir = [t \in Threads |-> <<>>]
    /\ file_path = [t \in Threads |-> <<>>]
    /\ compile_output = [t \in Threads |-> <<>>]
    /\ outcome = [t \in Threads |-> NoOutcome]
    /\ result = [t \in Threads |-> NoResult]
    /\ steps = [t \in Threads |-> <<>>]
    /\ procs = [t \in Threads |-> {}]
    /\ elapsed = [t \in Threads |-> 0]
    /\ workspaces = {}
    /\ files = [t \in Threads |-> {}]
    /\ probe_call = NoProbeCall
    /\ listing = NoListing

Log(t, ev) == steps' = [steps EXCEPT ![t] = Append(@, ev)]

\* compile_and_run_code returns r (status 200 at the endpoint)
Return(t, r) ==
    /\ result' = [result EXCEPT ![t] =
                    [success |-> r.success, output |-> r.output,
                     errors |-> r.errors, status |-> 200]]
    /\ pc' = [pc EXCEPT ![t] = "returned"]

\* leaving the with block of line 260, by return or by exception
LeaveWith(t) ==
    /\ workspaces' = TempDirCleanup(workspaces, t)
    /\ files' = [files EXCEPT ![t] = FilesAfterCleanup(@, TempDirOf(t))]

\* --------------------------------------------------------------- actions

\* lines 371-378 and 217-225: a request arrives on an idle worker
Receive(t, language, fileName) ==
    /\ pc[t] = "idle"
    /\ [language |-> language, fileName |-> fileName] \in Requests
    /\ request' = [request EXCEPT ![t] = [language |-> language, fileName |-> fileName]]
    /\ IF language \notin DOMAIN LANGUAGE_CONFIGS
       THEN Return(t, UnsupportedResponse(language))
       ELSE /\ pc' = [pc EXCEPT ![t] = IF language = "kotlin" THEN "probe" ELSE "mkdtemp"]
            /\ UNCHANGED result
    /\ UNCHANGED <<probe_call, listing, os_name, LANGUAGE_CONFIGS, probes, temp_dir, file_path,
                   compile_output, outcome, steps, procs, elapsed, workspaces, files>>

\* lines 228-251: the two probes and the choice that follows
ProbeKotlin(t, env) ==
    /\ pc[t] = "probe"
    /\ LET kotlinc_available == check_command_exists("kotlinc", env)
           kotlin_available == check_command_exists("kotlin", env)
       IN /\ probes' = [probes EXCEPT ![t] =
                          [kotlinc |-> kotlinc_available, kotlin |-> kotlin_available]]
          /\ steps' = [steps EXCEPT ![t] =
                          @ \o << Event("probe", <<"kotlinc">>, "", 0),
                                  Event("probe", <<"kotlin">>, "", 0) >>]
          /\ LET choice == ProbeBranch(kotlinc_available, kotlin_available)
             IN IF choice = "missing"
                THEN \E facts \in InstallFacts :
                        Return(t, MissingToolchainResponse(facts))
                ELSE /\ pc' = [pc EXCEPT ![t] = IF choice = "swap"
                                                THEN "swap_compile" ELSE "mkdtemp"]
                     /\ UNCHANGED result
    /\ UNCHANGED <<probe_call, listing, os_name, LANGUAGE_CONFIGS, request, temp_dir, file_path,
                   compile_output, outcome, procs, elapsed, workspaces, files>>

\* line 237: config.compile_cmd = None
SwapCompile(t) ==
    /\ pc[t] = "swap_compile"
    /\ LANGUAGE_CONFIGS' = [LANGUAGE_CONFIGS EXCEPT
                               ![request[t].language].compile_cmd = "None"]
    /\ Log(t, Event("swap", << <<Config(t).compile_cmd>>, <<Config(t).run_cmd>> >>, "", 0))
    /\ pc' = [pc EXCEPT ![t] = "swap_run"]
    /\ UNCHANGED <<probe_call, listing, os_name, request, probes, temp_dir, file_path,
                   compile_output, outcome, result, procs, elapsed,
                   workspaces, files>>

\* line 238: config.run_cmd = kotlin_interpret_cmd
SwapRun(t) ==
    /\ pc[t] = "swap_run"
    /\ LANGUAGE_CONFIGS' = [LANGUAGE_CONFIGS EXCEPT
                               ![request[t].language].run_cmd = "kotlin_interpret_cmd"]
    /\ pc' = [pc EXCEPT ![t] = "mkdtemp"]
    /\ UNCHANGED <<probe_call, listing, os_name, request, probes, temp_dir, file_path,
                   compile_output, outcome, result, steps, procs, elapsed,
                   workspaces, files>>

\* lines 253-261: the filename, the temporary directory and the file path
MakeWorkspace(t) ==
    /\ pc[t] = "mkdtemp"
    /\ LET filename == IF request[t].fileName # <<>>
                       THEN request[t].fileName
                       ELSE Config(t).default_filename
       IN /\ temp_dir' = [temp_dir EXCEPT ![t] = TempDirOf(t)]
          /\ file_path' = [file_path EXCEPT ![t] = os_path_join(TempDirOf(t), filename)]
    /\ workspaces' = workspaces \cup {TempDirOf(t)}
    /\ Log(t, Event("mkdtemp", TempDirOf(t), "", 0))
    /\ pc' = [pc EXCEPT ![t] = "write"]
    /\ UNCHANGED <<probe_call, listing, os_name, LANGUAGE_CONFIGS, request, probes,
                   compile_output, outcome, result, procs, elapsed, files>>

\* lines 264-272: open() and write() succeed, or raise and the request returns
WriteCode(t, ok) ==
    /\ pc[t] = "write"
    /\ IF ok
       THEN /\ files' = [files EXCEPT ![t] = @ \cup {normpath(file_path[t])}]
            /\ Log(t, Event("write", file_path[t], "", 0))
            /\ pc' = [pc EXCEPT ![t] = "check_compile"]
            /\ UNCHANGED <<result, workspaces>>
       ELSE /\ Return(t, WriteFailedResponse)
            /\ Log(t, Event("write_failed", file_path[t], "", 0))
            /\ LeaveWith(t)
    /\ UNCHANGED <<probe_call, listing, os_name, LANGUAGE_CONFIGS, request, probes, temp_dir,
                   file_path, compile_output, outcome, procs, elapsed>>

\* line 278: if config.compile_cmd
CheckCompile(t) ==
    /\ pc[t] = "check_compile"
    /\ pc' = [pc EXCEPT ![t] = IF Config(t).compile_cmd # "None"
                               THEN "call_compile" ELSE "call_run"]
    /\ UNCHANGED <<probe_call, listing, os_name, LANGUAGE_CONFIGS, request, probes, temp_dir,
                   file_path, compile_output, outcome, result, steps, procs, elapsed,
                   workspaces, files>>

\* lines 283-290: the build has returned o; evs is what the build did
AfterCompile(t, o, evs) ==
    /\ outcome' = [outcome EXCEPT ![t] = o]
    /\ compile_output' = [compile_output EXCEPT ![t] = CompileOutput(o)]
    /\ steps' = [steps EXCEPT ![t] = @ \o evs]
    /\ IF BuildFailed(o)
       THEN /\ Return(t, CompileFailedResponse(o))
            /\ LeaveWith(t)
       ELSE /\ pc' = [pc EXCEPT ![t] = "call_run"]
            /\ UNCHANGED <<result, workspaces, files>>

\* lines 297-322: the run has returned o; evs is what the run did
AfterRun(t, o, evs) ==
    /\ outcome' = [outcome EXCEPT ![t] = o]
    /\ steps' = [steps EXCEPT ![t] = @ \o evs]
    /\ Return(t, RunResponse(compile_output[t], o))
    /\ LeaveWith(t)
    /\ UNCHANGED compile_output

\* the argument vector of the command the thread is waiting for
CurrentArgv(t) == steps[t][Len(steps[t])].argv

\* lines 280-281: config.compile_cmd(file_path, temp_dir) and the launch of the
\* build; the call raises TypeError when compile_cmd is None by now, and
\* launch tells whether Popen started the process or raised
StartCompile(t, launch) ==
    /\ pc[t] = "call_compile"
    /\ IF ~Callable(Config(t).compile_cmd)
       THEN /\ launch.kind = "launched"
            /\ Log(t, Event("raise", <<"TypeError">>, "", 0))
            /\ pc' = [pc EXCEPT ![t] = "raised"]
            /\ LeaveWith(t)
            /\ UNCHANGED <<procs, elapsed, compile_output, outcome, result>>
       ELSE LET argv == CallGenerator(Config(t).compile_cmd, file_path[t], temp_dir[t])
            IN IF launch.kind = "launched"
               THEN /\ Log(t, Event("build_start", argv, "", 0))
                    /\ procs' = [procs EXCEPT ![t] = @ \cup Popen("build")]
                    /\ elapsed' = [elapsed EXCEPT ![t] = 0]
                    /\ pc' = [pc EXCEPT ![t] = "compiling"]
                    /\ UNCHANGED <<workspaces, files, compile_output, outcome, result>>
               ELSE /\ launch \in LaunchFailures
                    /\ AfterCompile(t, execute_command(argv, launch),
                          << Event("build_start", argv, "", 0),
                             Event("build_end", argv, launch.kind, 1) >>)
                    /\ UNCHANGED <<procs, elapsed>>
    /\ UNCHANGED <<probe_call, listing, os_name, LANGUAGE_CONFIGS, request, probes, temp_dir, file_path>>

\* lines 294-295: config.run_cmd(file_path, temp_dir) and the launch of the run
StartRun(t, launch) ==
    /\ pc[t] = "call_run"
    /\ LET argv == CallGenerator(Config(t).run_cmd, file_path[t], temp_dir[t])
       IN IF launch.kind = "launched"
          THEN /\ Log(t, Event("run_start", argv, "", 0))
               /\ procs' = [procs EXCEPT ![t] = @ \cup Popen("run")]
               /\ elapsed' = [elapsed EXCEPT ![t] = 0]
               /\ pc' = [pc EXCEPT ![t] = "running"]
               /\ UNCHANGED <<workspaces, files, compile_output, outcome, result>>
          ELSE /\ launch \in LaunchFailures
               /\ AfterRun(t, execute_command(argv, launch),
                     << Event("run_start", argv, "", 0),
                        Event("run_end", argv, launch.kind, 1) >>)
               /\ UNCHANGED <<procs, elapsed>>
    /\ UNCHANGED <<probe_call, listing, os_name, LANGUAGE_CONFIGS, request, probes, temp_dir, file_path>>

Phase(t) == IF pc[t] = "compiling" THEN "build" ELSE "run"
Deadline(t) == IF pc[t] = "compiling" THEN BuildTimeout ELSE RunTimeout
Waiting(t) == pc[t] \in {"compiling", "running"}

\* the handler's continuation once execute_command has returned on ev
AfterCommand(t, ev) ==
    LET argv == CurrentArgv(t)
        o == execute_command(argv, ev)
    IN IF pc[t] = "compiling"
       THEN AfterCompile(t, o, << Event("build_end", argv, ev.kind, o.returncode) >>)
       ELSE AfterRun(t, o, << Event("run_end", argv, ev.kind, o.returncode) >>)

\* a process of the command starts a process of its own
ChildSpawns(t) ==
    /\ Waiting(t)
    /\ <<Phase(t), "child">> \in procs[t]
    /\ <<Phase(t), "descendant">> \notin procs[t]
    /\ procs' = [procs EXCEPT ![t] = @ \cup {<<Phase(t), "descendant">>}]
    /\ UNCHANGED <<probe_call, listing, os_name, LANGUAGE_CONFIGS, pc, request, probes, temp_dir,
                   file_path, compile_output, outcome, result, steps, elapsed,
                   workspaces, files>>

\* a process below the child exits by itself (on Windows that process is the
\* command: while the shell lives, its exit is the command completing)
DescendantExits(t) ==
    /\ Waiting(t)
    /\ <<Phase(t), "descendant">> \in procs[t]
    /\ os_name = "nt" => <<Phase(t), "child">> \notin procs[t]
    /\ procs' = [procs EXCEPT ![t] = @ \ {<<Phase(t), "descendant">>}]
    /\ UNCHANGED <<probe_call, listing, os_name, LANGUAGE_CONFIGS, pc, request, probes, temp_dir,
                   file_path, compile_output, outcome, result, steps, elapsed,
                   workspaces, files>>

\* time passes while subprocess.run waits for the child
Tick(t) ==
    /\ Waiting(t)
    /\ <<Phase(t), "child">> \in procs[t]
    /\ elapsed[t] < Deadline(t)
    /\ elapsed' = [elapsed EXCEPT ![t] =
                     IF @ + TickUnit > Deadline(t) THEN Deadline(t) ELSE @ + TickUnit]
    /\ UNCHANGED <<probe_call, listing, os_name, LANGUAGE_CONFIGS, pc, request, probes, temp_dir,
                   file_path, compile_output, outcome, result, steps, procs,
                   workspaces, files>>

\* lines 195-206: the command ends before the deadline
CommandCompletes(t, ev) ==
    /\ Waiting(t)
    /\ <<Phase(t), "child">> \in procs[t]
    /\ ev \in Completions
    /\ procs' = [procs EXCEPT ![t] = ReapOnExit(@, Phase(t))]
    /\ elapsed' = [elapsed EXCEPT ![t] = 0]
    /\ AfterCommand(t, ev)
    /\ UNCHANGED <<probe_call, listing, os_name, LANGUAGE_CONFIGS, request, probes, temp_dir,
                   file_path>>

\* line 201: the deadline passes and subprocess.run kills the child
DeadlinePasses(t) ==
    /\ Waiting(t)
    /\ <<Phase(t), "child">> \in procs[t]
    /\ elapsed[t] >= Deadline(t)
    /\ procs' = [procs EXCEPT ![t] = KillOnTimeout(@, Phase(t))]
    /\ UNCHANGED <<probe_call, listing, os_name, LANGUAGE_CONFIGS, pc, request, probes, temp_dir,
                   file_path, compile_output, outcome, result, steps, elapsed,
                   workspaces, files>>

\* lines 207-208: subprocess.run raises TimeoutExpired once it has collected
\* the killed child
CommandTimesOut(t) ==
    /\ Waiting(t)
    /\ <<Phase(t), "child">> \notin procs[t]
    /\ CollectedAfterKill(procs[t], Phase(t))
    /\ elapsed' = [elapsed EXCEPT ![t] = 0]
    /\ AfterCommand(t, TimeoutExpired)
    /\ UNCHANGED <<probe_call, listing, os_name, LANGUAGE_CONFIGS, request, probes, temp_dir,
                   file_path, procs>>

\* lines 388-400: the catch-all of compile_endpoint
CatchAll(t) ==
    /\ pc[t] = "raised"
    /\ result' = [result EXCEPT ![t] =
                    [success |-> ServerErrorResponse.success,
                     output |-> ServerErrorResponse.output,
                     errors |-> ServerErrorResponse.errors, status |-> 500]]
    /\ pc' = [pc EXCEPT ![t] = "failed"]
    /\ UNCHANGED <<probe_call, listing, os_name, LANGUAGE_CONFIGS, request, probes, temp_dir,
                   file_path, compile_output, outcome, steps, procs, elapsed,
                   workspaces, files>>

\* lines 380-386 and 396-400: the response is sent and the worker is free again
Respond(t) ==
    /\ pc[t] \in {"returned", "failed"}
    /\ pc' = [pc EXCEPT ![t] = "idle"]
    /\ request' = [request EXCEPT ![t] = NoRequest]
    /\ probes' = [probes EXCEPT ![t] = NoProbes]
    /\ temp_dir' = [temp_dir EXCEPT ![t] = <<>>]
    /\ file_path' = [file_path EXCEPT ![t] = <<>>]
    /\ compile_output' = [compile_output EXCEPT ![t] = <<>>]
    /\ outcome' = [outcome EXCEPT ![t] = NoOutcome]
    /\ result' = [result EXCEPT ![t] = NoResult]
    /\ steps' = [steps EXCEPT ![t] = <<>>]
    /\ procs' = [procs EXCEPT ![t] = {}]
    /\ elapsed' = [elapsed EXCEPT ![t] = 0]
    /\ files' = [files EXCEPT ![t] = {}]
    /\ UNCHANGED <<probe_call, listing, os_name, LANGUAGE_CONFIGS, workspaces>>

Next ==
    \E t \in Threads :
        \/ \E l \in RequestLanguages, f \in FileNames : Receive(t, l, f)
        \/ \E env \in [Candidates -> ProbeOutcomes] : ProbeKotlin(t, env)
        \/ SwapCompile(t)
        \/ SwapRun(t)
        \/ MakeWorkspace(t)
        \/ \E ok \in BOOLEAN : WriteCode(t, ok)
        \/ CheckCompile(t)
        \/ \E launch \in Launches : StartCompile(t, launch)
        \/ \E launch \in Launches : StartRun(t, launch)
        \/ ChildSpawns(t)
        \/ DescendantExits(t)
        \/ Tick(t)
        \/ \E ev \in Completions : CommandCompletes(t, ev)
        \/ DeadlinePasses(t)
        \/ CommandTimesOut(t)
        \/ CatchAll(t)
        \/ Respond(t)

Spec == Init /\ [][Next]_vars

\* ------------------------------------------- the probe and the listing alone

\* the registry as requests leave it: as constructed, or with the Kotlin
\* profile's generators substituted by lines 237-238
Registries ==
    { InitialConfigs,
      [InitialConfigs EXCEPT !["kotlin"].compile_cmd = "None"],
      [InitialConfigs EXCEPT !["kotlin"].compile_cmd = "None",
                             !["kotlin"].run_cmd = "kotlin_interpret_cmd"] }

ToolInit ==
    /\ os_name \in {"nt", "posix"}
    /\ LANGUAGE_CONFIGS \in Registries
    /\ pc = [t \in Threads |-> "idle"]
    /\ request = [t \in Threads |-> NoRequest]
    /\ probes = [t \in Threads |-> NoProbes]
    /\ temp_dir = [t \in Threads |-> <<>>]
    /\ file_path = [t \in Threads |-> <<>>]
    /\ compile_output = [t \in Threads |-> <<>>]
    /\ outcome = [t \in Threads |-> NoOutcome]
    /\ result = [t \in Threads |-> NoResult]
    /\ steps = [t \in Threads |-> <<>>]
    /\ procs = [t \in Threads |-> {}]
    /\ elapsed = [t \in Threads |-> 0]
    /\ workspaces = {}
    /\ files = [t \in Threads |-> {}]
    /\ probe_call = NoProbeCall
    /\ listing = NoListing

\* lines 53-119: check_command_exists(cmd) where the candidates behave as env
CheckCommand(cmd, env) ==
    /\ probe_call' = [cmd |-> cmd, env |-> env,
                      tried |-> TryCommands(commands_to_try(cmd), env, <<>>).tried,
                      found |-> check_command_exists(cmd, env)]
    /\ listing' = NoListing
    /\ UNCHANGED <<os_name, LANGUAGE_CONFIGS, pc, request, probes,
                   temp_dir, file_path, compile_output, outcome, result, steps,
                   procs, elapsed, workspaces, files>>

\* lines 402-418: GET /languages where the candidates behave as env
ListLanguages(env) ==
    /\ LET languages == get_supported_languages(LANGUAGE_CONFIGS, env)
       IN listing' = [called |-> TRUE, env |-> env, registry |-> LANGUAGE_CONFIGS,
                      languages |-> languages, count |-> Len(languages)]
    /\ probe_call' = NoProbeCall
    /\ UNCHANGED <<os_name, LANGUAGE_CONFIGS, pc, request, probes,
                   temp_dir, file_path, compile_output, outcome, result, steps,
                   procs, elapsed, workspaces, files>>

ToolNext ==
    \/ \E cmd \in ProbedTools :
          \E env \in [CandidatesOf(cmd) -> ProbeOutcomes] : CheckCommand(cmd, env)
    \/ \E env \in [Candidates -> ProbeOutcomes] : ListLanguages(env)

ToolSpec == ToolInit /\ [][ToolNext]_vars

\* ------------------------------------------------- reading a request's steps

Ops(t) == {steps[t][i].op : i \in 1..Len(steps[t])}
Did(t, op) == op \in Ops(t)
LastStep(t) == steps[t][Len(steps[t])]
Returned(t) == pc[t] = "returned"
Over(t) == pc[t] \in {"returned", "raised", "failed"}

\* compile_and_run_code has returned from the build (resp. run) step
ReturnedFromBuild(t) ==
    Returned(t) /\ steps[t] # <<>> /\ LastStep(t).op = "build_end"
ReturnedFromRun(t) ==
    Returned(t) /\ steps[t] # <<>> /\ LastStep(t).op = "run_end"

IsKotlin(t) == request[t].language = "kotlin"
Probed(t) == Did(t, "probe")

KotlincBuild(t) == kotlin_compile_cmd(file_path[t], temp_dir[t])
JarRun(t) == kotlin_run_cmd(file_path[t], temp_dir[t])
ScriptRun(t) == kotlin_interpret_cmd(file_path[t], temp_dir[t])

\* the request has done nothing but the full-compiler strategy so far: no
\* call has failed, every build is the kotlinc build and every run is the jar
\* run, started after a build
CompilerStrategy(t) ==
    /\ ~Did(t, "raise")
    /\ \A i \in 1..Len(steps[t]) :
        /\ steps[t][i].op = "build_start" => steps[t][i].argv = KotlincBuild(t)
        /\ steps[t][i].op = "run_start" =>
              /\ steps[t][i].argv = JarRun(t)
              /\ \E j \in 1..(i - 1) : steps[t][j].op = "build_end"

\* the request has done nothing but the script strategy so far: no build,
\* and every run is the script run
ScriptStrategy(t) ==
    /\ ~Did(t, "raise")
    /\ ~Did(t, "build_start")
    /\ \A i \in 1..Len(steps[t]) :
        steps[t][i].op = "run_start" => steps[t][i].argv = ScriptRun(t)

\* ----------------------------------------------------------------- claims

\* C1: when a Kotlin request whose compiler probe succeeded and a Kotlin
\* request that fell back to the script runner are in flight together, each
\* performs the steps its own probes chose: the first the kotlinc build and
\* then the jar run, the second no build and the script run.
C1_EachRequestFollowsItsOwnProbes ==
    \A a, b \in Threads :
        ( /\ a # b
          /\ IsKotlin(a) /\ Probed(a) /\ probes[a].kotlinc
          /\ IsKotlin(b) /\ Probed(b) /\ ~probes[b].kotlinc /\ probes[b].kotlin )
        => CompilerStrategy(a) /\ ScriptStrategy(b)

\* C2: the substitution is scoped to the request that made it: once that
\* request is over, the registry's Kotlin profile holds the build and run
\* generators it held before the request substituted them.
C2_RegistryRestoredAtReturn ==
    \A t \in Threads :
        Over(t) =>
            \A i \in 1..Len(steps[t]) :
                steps[t][i].op = "swap" =>
                    /\ LANGUAGE_CONFIGS["kotlin"].compile_cmd = steps[t][i].argv[1][1]
                    /\ LANGUAGE_CONFIGS["kotlin"].run_cmd = steps[t][i].argv[2][1]

\* C3: once compile_and_run_code is over, by return or by exception, the
\* workspace of the request does not exist, whatever the other worker does.
C3_WorkspaceRemoved ==
    \A t \in Threads :
        (Over(t) \/ pc[t] = "idle") => TempDirOf(t) \notin workspaces

\* C3 witness: one request has returned from a successful run and the other
\* has ended by an exception inside the pipeline, both after creating a
\* workspace.
C3_Witness ==
    /\ ReturnedFromRun("t1") /\ result["t1"].success /\ Did("t1", "mkdtemp")
    /\ pc["t2"] = "failed" /\ Did("t2", "mkdtemp") /\ Did("t2", "raise")

\* C4: a run starts only when every build started before it has ended with
\* exit code zero, nothing is started after a build that ended non-zero, and
\* no process of the build is alive while the run's child is.
C4_RunOnlyAfterGoodBuild ==
    \A t \in Threads :
        /\ \A i \in 1..Len(steps[t]) :
              steps[t][i].op = "run_start" =>
                 \A j \in 1..(i - 1) :
                    /\ steps[t][j].op = "build_start" =>
                          /\ j + 1 < i
                          /\ steps[t][j + 1].op = "build_end"
                    /\ steps[t][j].op = "build_end" => steps[t][j].rc = 0
        /\ \A j \in 1..Len(steps[t]) :
              (steps[t][j].op = "build_end" /\ steps[t][j].rc # 0) => j = Len(steps[t])
        /\ <<"run", "child">> \in procs[t] =>
              \A p \in procs[t] : p[1] # "build"

\* C4 witness: a build that ended non-zero (here by timeout) has returned,
\* while the other request runs after a build that ended with exit code zero.
C4_Witness ==
    /\ ReturnedFromBuild("t1") /\ LastStep("t1").how = "timeout"
    /\ pc["t2"] = "running" /\ Did("t2", "build_end")

\* C5 as stated: for a request that reached the run step, success is true
\* iff the run's exit code is zero and its stderr is empty.
C5_SuccessIffZeroAndNoStderr ==
    \A t \in Threads :
        ReturnedFromRun(t) =>
            (result[t].success <=>
                (outcome[t].returncode = 0 /\ outcome[t].stderr = <<>>))

\* C5 amended: for a request that reached the run step, success is true iff
\* the run's exit code is zero, whatever its stderr holds.
C5_SuccessIffExitZero ==
    \A t \in Threads :
        ReturnedFromRun(t) => (result[t].success <=> outcome[t].returncode = 0)

\* C5 witness: a run ended with exit code zero and text on stderr, and the
\* request succeeded.
C5_Witness ==
    \E t \in Threads :
        /\ ReturnedFromRun(t)
        /\ outcome[t].returncode = 0 /\ outcome[t].stderr # <<>>
        /\ result[t].success

\* C6: a request for a language that is not in the registry returns
\* success=false, empty output and one error holding the identifier, having
\* created no workspace, probed no tool and started no process.
C6_UnsupportedLanguage ==
    \A t \in Threads :
        (Returned(t) /\ request[t].language \notin DOMAIN LANGUAGE_CONFIGS) =>
            /\ ~result[t].success
            /\ result[t].output = <<>>
            /\ Len(result[t].errors) = 1
            /\ Contains(result[t].errors[1], request[t].language)
            /\ steps[t] = <<>>
            /\ procs[t] = {}
            /\ files[t] = {}
            /\ TempDirOf(t) \notin workspaces

\* C6 witness: a request for the unknown language has returned.
C6_Witness ==
    \E t \in Threads : Returned(t) /\ request[t].language = "ruby"

\* C7: when a command has exceeded its deadline the runner has returned empty
\* stdout, the timeout sentinel in stderr and a non-zero exit code, and no
\* process started for the request is alive any more.
C7_TimeoutLeavesNoProcess ==
    \A t \in Threads :
        (Returned(t) /\ steps[t] # <<>> /\ LastStep(t).how = "timeout") =>
            /\ outcome[t].stdout = <<>>
            /\ outcome[t].stderr = <<"Execution timed out">>
            /\ outcome[t].returncode # 0
            /\ procs[t] = {}

\* C8: a run that does not end by itself still returns, by the deadline:
\* while the runner waits, the deadline has not passed and the runner can go
\* on (time passes, the deadline kills the child, the timeout is returned)
\* without any process of the program exiting by itself; and the request
\* that returns from a timed-out run reports success=false, an error, and
\* the timeout text in its output.
C8_HangingRunReturns ==
    \A t \in Threads :
        /\ pc[t] = "running" =>
              /\ elapsed[t] <= RunTimeout
              /\ ENABLED (Tick(t) \/ DeadlinePasses(t) \/ CommandTimesOut(t))
        /\ (ReturnedFromRun(t) /\ LastStep(t).how = "timeout") =>
              /\ ~result[t].success
              /\ result[t].errors # <<>>
              /\ Contains(result[t].output, "Execution timed out")

\* C9: when the build ends non-zero the request returns success=false, the
\* build's stdout followed by its stderr as output, and one error holding
\* the compilation failure and the exit code.
C9_BuildFailure ==
    \A t \in Threads :
        (ReturnedFromBuild(t) /\ LastStep(t).rc # 0) =>
            /\ ~result[t].success
            /\ result[t].output = outcome[t].stdout \o outcome[t].stderr
            /\ Len(result[t].errors) = 1
            /\ result[t].errors[1] =
                  <<"Compilation failed with exit code:", LastStep(t).rc>>

\* C9 witness: a build that printed on both streams ended non-zero and the
\* request has returned.
C9_Witness ==
    \E t \in Threads :
        /\ ReturnedFromBuild(t) /\ LastStep(t).rc # 0
        /\ outcome[t].stdout # <<>> /\ outcome[t].stderr # <<>>

\* C10: a Kotlin request whose two probes both failed returns success=false
\* with a non-empty errors list, having created no workspace and started
\* neither build nor run.
C10_MissingToolchain ==
    \A t \in Threads :
        (IsKotlin(t) /\ Probed(t) /\ ~probes[t].kotlinc /\ ~probes[t].kotlin) =>
            /\ Returned(t)
            /\ ~result[t].success
            /\ result[t].errors # <<>>
            /\ Ops(t) = {"probe"}
            /\ procs[t] = {}
            /\ TempDirOf(t) \notin workspaces

\* C10 witness: such a request has returned.
C10_Witness ==
    \E t \in Threads :
        Returned(t) /\ IsKotlin(t) /\ ~probes[t].kotlinc /\ ~probes[t].kotlin

\* C11: for a request that reached the run step, errors holds exactly one
\* entry, naming the run failure and the exit code, when the run's exit code
\* is non-zero and its stderr is non-empty, and is empty otherwise; a run
\* that ended non-zero with empty stderr returns success=false with empty
\* errors.
C11_RunErrorsOnlyWithStderr ==
    \A t \in Threads :
        ReturnedFromRun(t) =>
            /\ (outcome[t].returncode # 0 /\ outcome[t].stderr # <<>>) =>
                  /\ Len(result[t].errors) = 1
                  /\ result[t].errors[1] =
                        <<"Execution failed with exit code:", outcome[t].returncode>>
            /\ ~(outcome[t].returncode # 0 /\ outcome[t].stderr # <<>>) =>
                  result[t].errors = <<>>
            /\ (outcome[t].returncode # 0 /\ outcome[t].stderr = <<>>) =>
                  ~result[t].success /\ result[t].errors = <<>>

\* C11 witness: one run ended non-zero without stderr and returned
\* success=false with no error, while another ended non-zero with stderr and
\* returned one error.
C11_Witness ==
    /\ ReturnedFromRun("t1")
    /\ outcome["t1"].returncode # 0 /\ outcome["t1"].stderr = <<>>
    /\ ~result["t1"].success /\ result["t1"].errors = <<>>
    /\ ReturnedFromRun("t2")
    /\ outcome["t2"].returncode # 0 /\ outcome["t2"].stderr # <<>>
    /\ Len(result["t2"].errors) = 1

\* C12: every request ends with a well-formed {success, output, errors}
\* result: a request that has returned or failed holds one, an exception
\* raised inside the pipeline (here by calling a build generator that is
\* None) is caught by the catch-all, and the result it is turned into has
\* success=false and a non-empty errors list.
C12_EveryRequestGetsAResult ==
    \A t \in Threads :
        /\ pc[t] \in {"returned", "failed"} =>
              /\ DOMAIN result[t] = {"success", "output", "errors", "status"}
              /\ result[t].success \in BOOLEAN
              /\ result[t].status \in {200, 500}
              /\ DOMAIN result[t].errors = 1..Len(result[t].errors)
              /\ DOMAIN result[t].output = 1..Len(result[t].output)
        /\ pc[t] = "raised" => ENABLED CatchAll(t)
        /\ (Did(t, "raise") /\ pc[t] # "raised") =>
              /\ pc[t] = "failed"
              /\ ~result[t].success
              /\ result[t].errors # <<>>

\* C12 witness: a request whose call of the build generator raised has been
\* answered by the catch-all.
C12_Witness ==
    \E t \in Threads :
        pc[t] = "failed" /\ Did(t, "raise") /\ result[t].status = 500

\* C13: when writing the source file fails the request returns
\* success=false with exactly one error, the write failure; neither build nor
\* run was started, the write was attempted once, and the workspace is gone.
C13_WriteFailure ==
    \A t \in Threads :
        Did(t, "write_failed") =>
            /\ Returned(t)
            /\ LastStep(t).op = "write_failed"
            /\ ~result[t].success
            /\ Len(result[t].errors) = 1
            /\ result[t].errors[1] = <<"Failed to write code to file:">>
            /\ Ops(t) \cap {"build_start", "run_start", "write"} = {}
            /\ Cardinality({i \in 1..Len(steps[t]) :
                               steps[t][i].op = "write_failed"}) = 1
            /\ procs[t] = {}
            /\ files[t] = {}
            /\ TempDirOf(t) \notin workspaces

\* C13 witness: a request has returned from a failed write, after creating
\* its workspace.
C13_Witness ==
    \E t \in Threads :
        Returned(t) /\ Did(t, "mkdtemp") /\ Did(t, "write_failed")

\* C14: the output of a request that reached the run step is, joined by
\* newlines: the compilation-success marker whenever a build step was
\* executed, whatever the build printed; the labeled stdout section iff the
\* run's stdout is non-empty; the labeled stderr section iff the run's stderr
\* is non-empty; the no-output note iff both are empty.
C14_OutputAssembly ==
    \A t \in Threads :
        ReturnedFromRun(t) =>
            LET o == outcome[t]
                marker == IF Did(t, "build_end")
                          THEN << <<"Compilation successful">> >> ELSE <<>>
                out == IF o.stdout # <<>>
                       THEN << <<"--- Execution Output ---">>, strip(o.stdout) >>
                       ELSE <<>>
                err == IF o.stderr # <<>>
                       THEN << <<"--- Execution Error ---">>, strip(o.stderr) >>
                       ELSE <<>>
                none == IF o.stdout = <<>> /\ o.stderr = <<>>
                        THEN << <<"--- No Output ---">> >> ELSE <<>>
            IN result[t].output = join(marker \o out \o err \o none)

\* C16: execute_command never raises and returns a (stdout, stderr, exit
\* code) outcome: a command that was started is followed by nothing but its
\* own end, and a launch that failed, the command not being found or Popen
\* raising otherwise, gives empty stdout, a descriptive stderr and a non-zero
\* exit code.
C16_RunnerNeverRaises ==
    \A t \in Threads :
        /\ \A i \in 1..Len(steps[t]) :
              /\ steps[t][i].op = "build_start" =>
                    (i < Len(steps[t]) => steps[t][i + 1].op = "build_end")
              /\ steps[t][i].op = "run_start" =>
                    (i < Len(steps[t]) => steps[t][i + 1].op = "run_end")
        /\ (steps[t] # <<>> /\ LastStep(t).op \in {"build_end", "run_end"}) =>
              /\ DOMAIN outcome[t] = {"stdout", "stderr", "returncode"}
              /\ outcome[t].returncode \in Int
              /\ LastStep(t).how \in {"notfound", "error"} =>
                    /\ outcome[t].stdout = <<>>
                    /\ outcome[t].stderr # <<>>
                    /\ outcome[t].returncode # 0

\* C16 witness: one request has returned from a command that was not found,
\* the other from a launch that raised otherwise.
C16_Witness ==
    /\ Returned("t1") /\ steps["t1"] # <<>> /\ LastStep("t1").how = "notfound"
    /\ Returned("t2") /\ steps["t2"] # <<>> /\ LastStep("t2").how = "error"

\* C18: in every interleaving of Kotlin requests, the build and run steps of
\* one request belong to one strategy: the kotlinc build and then the jar
\* run, or no build and the script run; and no request calls a build
\* generator that is None by the time of the call.
C18_OneStrategyPerRequest ==
    \A t \in Threads :
        IsKotlin(t) => CompilerStrategy(t) \/ ScriptStrategy(t)

\* C19: whatever fileName the request supplies, the source file is written
\* inside the request's own workspace, and no file written for the request
\* is left once the workspace has been deleted.
C19_SourceFileInsideWorkspace ==
    \A t \in Threads :
        /\ Did(t, "write") => IsUnder(file_path[t], temp_dir[t])
        /\ Over(t) => files[t] = {}

\* C20: every result has errors empty when success is true.
C20_SuccessImpliesNoErrors ==
    \A t \in Threads :
        pc[t] \in {"returned", "failed"} =>
            (result[t].success => result[t].errors = <<>>)

\* C20 witness: one request has returned success=true with no error while
\* the other has returned from a run with an error recorded.
C20_Witness ==
    /\ Returned("t1") /\ result["t1"].success /\ result["t1"].errors = <<>>
    /\ ReturnedFromRun("t2") /\ result["t2"].errors # <<>>

\* C15: check_command_exists tries the candidates of the tool in order and
\* answers true at the first one that meets the criterion (exit code zero;
\* for kotlinc and kotlinc.bat also 'kotlin' in the lower-cased output of a
\* run that ended non-zero); a candidate that is not found, times out, raises
\* or fails the criterion is followed by the next one; the answer is false
\* exactly when every candidate was tried and failed; the call always
\* answers.
C15_ProbeTriesCandidatesInOrder ==
    probe_call.cmd # "" =>
        LET cands == IF os_name = "nt" /\ probe_call.cmd = "kotlinc"
                     THEN <<"kotlinc.bat", "kotlinc">>
                     ELSE <<probe_call.cmd>>
            tried == probe_call.tried
            o(c) == probe_call.env[c]
            Meets(c) == /\ o(c).kind = "completed"
                        /\ \/ o(c).returncode = 0
                           \/ c \in {"kotlinc", "kotlinc.bat"} /\ o(c).banner
        IN /\ probe_call.found \in BOOLEAN
           /\ Len(tried) \in 1..Len(cands)
           /\ tried = SubSeq(cands, 1, Len(tried))
           /\ \A i \in 1..(Len(tried) - 1) : ~Meets(tried[i])
           /\ probe_call.found <=> Meets(tried[Len(tried)])
           /\ ~probe_call.found <=>
                 (tried = cands /\ \A i \in 1..Len(cands) : ~Meets(cands[i]))

\* C15 witness: the probe of kotlinc on Windows, where kotlinc.bat timed out
\* and kotlinc ended non-zero printing its banner, tried both and answered
\* true.
C15_Witness ==
    /\ os_name = "nt" /\ probe_call.cmd = "kotlinc"
    /\ probe_call.env["kotlinc.bat"].kind = "timeout"
    /\ probe_call.env["kotlinc"].kind = "completed"
    /\ probe_call.env["kotlinc"].returncode # 0 /\ probe_call.env["kotlinc"].banner
    /\ probe_call.tried = <<"kotlinc.bat", "kotlinc">>
    /\ probe_call.found

\* C17: get_supported_languages returns the registry's identifiers in
\* registry order: every language other than Kotlin, and Kotlin iff the
\* probe of kotlinc or the probe of kotlin succeeds at the call; the count is
\* the length of the list and the registry is as it was.
C17_ListingFollowsProbes ==
    listing.called =>
        LET languages == listing.languages
            listed == {languages[i] : i \in 1..Len(languages)}
        IN /\ languages = SelectSeq(LanguageOrder, LAMBDA l : l \in listed)
           /\ Registered \ {"kotlin"} \subseteq listed
           /\ listed \subseteq Registered
           /\ "kotlin" \in listed <=>
                 \/ check_command_exists("kotlinc", listing.env)
                 \/ check_command_exists("kotlin", listing.env)
           /\ listing.count = Len(languages)
           /\ LANGUAGE_CONFIGS = listing.registry

\* C17 witness: a listing made while the registry holds the substituted
\* Kotlin profile, the probe of kotlinc failing and the probe of kotlin
\* succeeding, holds all seven languages.
C17_Witness ==
    /\ listing.called
    /\ LANGUAGE_CONFIGS["kotlin"].compile_cmd = "None"
    /\ ~check_command_exists("kotlinc", listing.env)
    /\ check_command_exists("kotlin", listing.env)
    /\ listing.languages = LanguageOrder

====
